---- MODULE Spec2Model ----
(***************************************************************************)
(* Charms spell verification engine (charms-data, charms-sdk, charmix).    *)
(*                                                                         *)
(* The validators are pure functions of (app, tx, x, w).  They are         *)
(* modelled as operators; each specification draws the call's arguments    *)
(* in its initial state and has one action per entry point, which applies  *)
(* the entry point to the arguments and records what it returned.          *)
(*                                                                         *)
(* The serde mirror types of the wasm bindings (WasmApp, WasmData,         *)
(* WasmTransaction, ...) have the same fields and variants as the native   *)
(* types of charms-data; both are modelled by the same values.             *)
(***************************************************************************)
EXTENDS Integers, Sequences, FiniteSets, TLC

VARIABLES
    app_tag,          \* App.tag / WasmApp.tag: a string, as a sequence of characters
    tx,               \* Transaction: [inputs, outputs]
    x,                \* the authorization datum (Data)
    overflow_checks,  \* build profile: TRUE = overflow checks on (dev/test), FALSE = release
    result,           \* what the last entry point called returned
    spell,            \* the spell under construction or check: [version, ins, outs]
    charms,           \* the CharmState under construction
    observed          \* history: the calls made so far, each with its arguments and
                      \* what it returned; kept only where calls are compared

vars == <<app_tag, tx, x, overflow_checks, result, spell, charms, observed>>

(***************************************************************************)
(* Bounds of the model                                                     *)
(***************************************************************************)
MaxInputs == 2
MaxOutputs == 2

\* the transactions on which the duplicate report is examined: enough outputs
\* for an identifier to occur three times, or two identifiers twice at the bound above
MaxReportInputs == 1
MaxReportOutputs == 3

(***************************************************************************)
(* Option<T>: None is the empty sequence, Some(v) the sequence <<v>>       *)
(***************************************************************************)
None == << >>
Some(v) == <<v>>
IsSome(o) == Len(o) = 1
Unwrap(o) == o[1]

(***************************************************************************)
(* u64: 64-bit unsigned integers, kept at full width as four 16-bit limbs, *)
(* most significant first                                                  *)
(***************************************************************************)
U64Bits == 64
LimbBase == 2^16
NumLimbs == U64Bits \div 16

\* the u64 with value n, for 0 <= n < 2^16
U64(n) == <<0, 0, 0, n>>
U64_MAX == <<LimbBase - 1, LimbBase - 1, LimbBase - 1, LimbBase - 1>>

\* a + b on u64: the wrapped value and whether the addition overflowed
u64_add(a, b) ==
    LET s4 == a[4] + b[4]
        s3 == a[3] + b[3] + (s4 \div LimbBase)
        s2 == a[2] + b[2] + (s3 \div LimbBase)
        s1 == a[1] + b[1] + (s2 \div LimbBase)
    IN  [value    |-> <<s1 % LimbBase, s2 % LimbBase, s3 % LimbBase, s4 % LimbBase>>,
         overflow |-> s1 >= LimbBase]

\* a - b on u64, for a >= b
u64_sub(a, b) ==
    LET d4 == a[4] - b[4]
        d3 == a[3] - b[3] - (IF d4 < 0 THEN 1 ELSE 0)
        d2 == a[2] - b[2] - (IF d3 < 0 THEN 1 ELSE 0)
        d1 == a[1] - b[1] - (IF d2 < 0 THEN 1 ELSE 0)
    IN  <<(d1 + LimbBase) % LimbBase, (d2 + LimbBase) % LimbBase,
          (d3 + LimbBase) % LimbBase, (d4 + LimbBase) % LimbBase>>

\* v as u32: the low 32 bits, two limbs
as_u32(v) == <<v[3], v[4]>>

\* a comparison `a > b` written as `a != b`
u64_ne(a, b) == a # b

\* a > b on u64
u64_gt(a, b) ==
    \E i \in 1..NumLimbs : a[i] > b[i] /\ \A j \in 1..(i - 1) : a[j] = b[j]

u64_ge(a, b) == a = b \/ u64_gt(a, b)

(***************************************************************************)
(* charms-data: Data.  The payload is a sequence of integers: the limbs of  *)
(* a u64 or i64, the bytes of Bytes, the characters of a String, 0 or 1    *)
(* for a Bool.                                                             *)
(***************************************************************************)
Data_Empty == [type |-> "Empty", value |-> << >>]
Data_Bool(b) == [type |-> "Bool", value |-> <<IF b THEN 1 ELSE 0>>]
Data_U64(v) == [type |-> "U64", value |-> v]
Data_I64(v) == [type |-> "I64", value |-> v]
Data_Bytes(b) == [type |-> "Bytes", value |-> b]
Data_String(s) == [type |-> "String", value |-> s]

\* mutant of is_empty: zero-length Bytes counts as empty too
is_empty_or_no_bytes(data) ==
    data.type = "Empty" \/ (data.type = "Bytes" /\ data.value = << >>)

\* Data::is_empty
is_empty(data) == data.type = "Empty"

\* mutant of as_u64: an Int64 is coerced to u64
as_u64_coercing(data) ==
    IF data.type \in {"U64", "I64"} THEN Some(data.value) ELSE None

\* Data::as_u64, data_as_u64 on a present datum
as_u64(data) == IF data.type = "U64" THEN Some(data.value) ELSE None

\* Data::as_bytes, data_as_bytes on a present datum
as_bytes(data) == IF data.type = "Bytes" THEN Some(data.value) ELSE None

(***************************************************************************)
(* charms-data: CharmState, a map from app tag to Data                     *)
(***************************************************************************)
CharmState_new == [apps |-> << >>]

\* with_app written with `self.apps.entry(tag.into()).or_insert(state)`: an
\* entry already present is kept
with_app_keep_first(state, tag, data) ==
    [apps |-> [t \in (DOMAIN state.apps) \cup {tag} |->
                 IF t \in DOMAIN state.apps THEN state.apps[t] ELSE data]]

with_app(state, tag, data) ==
    [apps |-> [t \in (DOMAIN state.apps) \cup {tag} |->
                 IF t = tag THEN data ELSE state.apps[t]]]

\* get written as a lookup of the first key that starts with tag
\* (`self.apps.iter().find(|(k, _)| k.starts_with(tag))`)
get_by_prefix(state, tag) ==
    LET keys == {k \in DOMAIN state.apps :
                    Len(k) >= Len(tag) /\ \A i \in 1..Len(tag) : k[i] = tag[i]}
    IN  IF keys = {} THEN None
        ELSE Some(state.apps[CHOOSE k \in keys : \A j \in keys : Len(k) <= Len(j)])

\* CharmState::get
get(state, tag) ==
    IF tag \in DOMAIN state.apps THEN Some(state.apps[tag]) ELSE None

\* get_state_data(&Option<WasmCharmState>, tag), and the native chain
\* charm_state.as_ref().and_then(|state| state.get(app_tag))
get_state_data(charm_state, tag) ==
    IF IsSome(charm_state) THEN get(Unwrap(charm_state), tag) ELSE None

\* data_as_u64(&Option<WasmData>), and the native .and_then(|data| data.as_u64())
data_as_u64(data) == IF IsSome(data) THEN as_u64(Unwrap(data)) ELSE None

\* data_as_bytes(&Option<WasmData>), and the native .and_then(|data| data.as_bytes())
data_as_bytes(data) == IF IsSome(data) THEN as_bytes(Unwrap(data)) ELSE None

(***************************************************************************)
(* Iterator adaptors over the inputs or outputs of a transaction           *)
(***************************************************************************)
RECURSIVE u64_entries(_, _)
\* items.iter().filter_map(|i| get_state_data(i.charm_state, tag) as u64).collect()
u64_entries(items, tag) ==
    IF items = << >> THEN << >>
    ELSE LET v == data_as_u64(get_state_data(Head(items).charm_state, tag))
         IN  (IF IsSome(v) THEN <<Unwrap(v)>> ELSE << >>) \o u64_entries(Tail(items), tag)

RECURSIVE bytes_entries(_, _)
\* items.iter().filter_map(|i| get_state_data(i.charm_state, tag) as bytes).collect()
bytes_entries(items, tag) ==
    IF items = << >> THEN << >>
    ELSE LET v == data_as_bytes(get_state_data(Head(items).charm_state, tag))
         IN  (IF IsSome(v) THEN <<Unwrap(v)>> ELSE << >>) \o bytes_entries(Tail(items), tag)

RECURSIVE fold_sum(_, _)
\* Iterator::sum::<u64>() from the accumulator acc: a left fold with +.  The
\* addition wraps; overflow records whether any step overflowed.
fold_sum(acc, values) ==
    IF values = << >> THEN acc
    ELSE LET s == u64_add(acc.value, Head(values))
         IN  fold_sum([value |-> s.value, overflow |-> acc.overflow \/ s.overflow],
                      Tail(values))

\* the sum written as the first value alone (`.next().unwrap_or(0)`)
iter_first(values) ==
    [value |-> IF values = << >> THEN U64(0) ELSE Head(values), overflow |-> FALSE]

iter_sum(values) == fold_sum([value |-> U64(0), overflow |-> FALSE], values)

\* the sum of the u64 amounts under tag over items
sum_u64(items, tag) == iter_sum(u64_entries(items, tag))

(***************************************************************************)
(* What a call produced: a returned value, or a panic (no value)           *)
(***************************************************************************)
Returned(v) == [panicked |-> FALSE, ret |-> v]
Panicked(v) == [panicked |-> TRUE, ret |-> v]

(***************************************************************************)
(* charmix wasm_bindings: WasmCheckResult                                  *)
(***************************************************************************)
WasmCheckResult_default ==
    [valid |-> FALSE, spell_type |-> "unknown",
     input_sum |-> None, output_sum |-> None,
     is_mint |-> None, is_burn |-> None,
     current_state |-> None, next_state |-> None,
     state_transition_valid |-> None,
     nft_ids |-> None, duplicate_nfts |-> None,
     errors |-> << >>]

(***************************************************************************)
(* Fungible validator                                                      *)
(***************************************************************************)
\* charmix::token::check(app, tx, x, _w) -> bool
token_check(tag, t, auth, checks) ==
    LET input_sum == sum_u64(t.inputs, tag)
        output_sum == sum_u64(t.outputs, tag)
        auth_data == as_bytes(auth)
    IN  IF checks /\ (input_sum.overflow \/ output_sum.overflow)
          THEN Panicked(FALSE)          \* attempt to add with overflow
        ELSE IF input_sum.value # output_sum.value THEN Returned(FALSE)
        ELSE IF IsSome(auth_data) /\ Len(Unwrap(auth_data)) = 0 THEN Returned(FALSE)
        ELSE Returned(TRUE)

\* charmix wasm_bindings: check_token_internal(app, tx, x) -> WasmCheckResult
check_token_internal(tag, t, auth, checks) ==
    LET input_sum == sum_u64(t.inputs, tag)
        output_sum == sum_u64(t.outputs, tag)
        e1 == IF input_sum.value # output_sum.value
                THEN << <<"Token conservation failed", input_sum.value, output_sum.value>> >>
                ELSE << >>
        e2 == IF auth.type = "Bytes" /\ Len(auth.value) = 0
                THEN << <<"Empty authorization data">> >>
                ELSE << >>
        errors == e1 \o e2
        is_mint == input_sum.value = U64(0) /\ u64_gt(output_sum.value, U64(0))
        is_burn == u64_gt(input_sum.value, output_sum.value)
    IN  IF checks /\ (input_sum.overflow \/ output_sum.overflow)
          THEN Panicked(WasmCheckResult_default)   \* attempt to add with overflow
        ELSE Returned([WasmCheckResult_default EXCEPT
                         !.valid = (errors = << >>),
                         !.spell_type = "token",
                         !.input_sum = Some(input_sum.value),
                         !.output_sum = Some(output_sum.value),
                         !.is_mint = Some(is_mint),
                         !.is_burn = Some(is_burn),
                         !.errors = errors])

\* `tx.inputs.iter().any(|input| input.charm_state.as_ref()
\*      .map(|state| state.get(app_tag).is_some()).unwrap_or(false))`
has_tokens(items, tag) ==
    \E i \in 1..Len(items) :
        /\ IsSome(items[i].charm_state)
        /\ IsSome(get(Unwrap(items[i].charm_state), tag))

\* charmix::token::is_mint(app, tx) -> bool
token_is_mint(tag, t) ==
    LET has_input_tokens == has_tokens(t.inputs, tag)
        has_output_tokens == has_tokens(t.outputs, tag)
    IN  Returned(~has_input_tokens /\ has_output_tokens)

\* charmix::token::is_burn(app, tx) -> bool
token_is_burn(tag, t, checks) ==
    LET input_sum == sum_u64(t.inputs, tag)
        output_sum == sum_u64(t.outputs, tag)
    IN  IF checks /\ (input_sum.overflow \/ output_sum.overflow)
          THEN Panicked(FALSE)          \* attempt to add with overflow
        ELSE Returned(u64_gt(input_sum.value, output_sum.value))

(***************************************************************************)
(* The record of a call, as kept in result                                 *)
(***************************************************************************)
NoResult == [fn |-> "none", outcome |-> "none", report |-> None]

(***************************************************************************)
(* What a validator call leaves behind.  Every parameter is a shared       *)
(* reference (&App, &Transaction, &Data) and the crates hold no static:    *)
(* the arguments are as they were, and nothing but the returned value is   *)
(* produced.  The call is added to the history where one is kept.          *)
(***************************************************************************)
Observation(r) ==
    [fn |-> r.fn, app_tag |-> app_tag, tx |-> tx, x |-> x, returned |-> r]

\* a callee that is given `&mut Transaction` and takes the inputs out of it
\* (`std::mem::take(&mut tx.inputs)`)
Frame_inputs_taken ==
    /\ tx' = [tx EXCEPT !.inputs = << >>]
    /\ UNCHANGED <<app_tag, x, overflow_checks, spell, charms>>
    /\ observed' = IF IsSome(observed)
                     THEN Some(Unwrap(observed) \cup {Observation(result')})
                     ELSE observed

Frame ==
    /\ UNCHANGED <<app_tag, tx, x, overflow_checks, spell, charms>>
    /\ observed' = IF IsSome(observed)
                     THEN Some(Unwrap(observed) \cup {Observation(result')})
                     ELSE observed

\* no spell and no charm state are under construction
NoSpell == [version |-> 0, ins |-> << >>, outs |-> << >>]
NoBuilders == spell = NoSpell /\ charms = [apps |-> << >>]

\* a native validator returns bool
NativeResult(fn, r) ==
    [fn |-> fn,
     outcome |-> IF r.panicked THEN "panic" ELSE IF r.ret THEN "accept" ELSE "reject",
     report |-> None]

\* a classification helper returns bool: a flag, not a verdict
FlagResult(fn, r) ==
    [fn |-> fn,
     outcome |-> IF r.panicked THEN "panic" ELSE IF r.ret THEN "true" ELSE "false",
     report |-> None]

\* a diagnostic validator returns a WasmCheckResult
DiagResult(fn, r) ==
    [fn |-> fn,
     outcome |-> IF r.panicked THEN "panic" ELSE IF r.ret.valid THEN "accept" ELSE "reject",
     report |-> IF r.panicked THEN None ELSE Some(r.ret)]

(***************************************************************************)
(* Arguments of a call                                                     *)
(***************************************************************************)
SeqsUpTo(S, n) == UNION {[1..k -> S] : k \in 0..n}

TokenTag == <<"t", "o", "k", "e", "n", ":", "A">>
OtherTag == <<"t", "o", "k", "e", "n", ":", "B">>

\* an input's or output's charm_state: absent, present without an entry for tag
\* (it holds an amount under another tag), or present with one of entries under tag
CharmStates(tag, entries) ==
    {None, Some(with_app(CharmState_new, OtherTag, Data_U64(U64(1))))}
        \cup {Some(with_app(CharmState_new, tag, d)) : d \in entries}

Transactions(states) ==
    {[inputs |-> i, outputs |-> o] :
        i \in SeqsUpTo({[charm_state |-> s] : s \in states}, MaxInputs),
        o \in SeqsUpTo({[charm_state |-> s] : s \in states}, MaxOutputs)}

TokenEntries ==
    {Data_U64(U64(0)), Data_U64(U64(1)), Data_U64(U64_MAX), Data_I64(U64(1))}

TokenAuth ==
    {Data_Empty, Data_Bytes(<< >>), Data_Bytes(<<1>>), Data_String(<< >>)}

(***************************************************************************)
(* Specification of the fungible validator                                 *)
(***************************************************************************)
InitToken ==
    /\ app_tag = TokenTag
    /\ tx \in Transactions(CharmStates(TokenTag, TokenEntries))
    /\ x \in TokenAuth
    /\ overflow_checks \in BOOLEAN
    /\ result = NoResult
    /\ NoBuilders
    /\ observed = None

TokenCheck ==
    /\ result' = NativeResult("token::check", token_check(app_tag, tx, x, overflow_checks))
    /\ Frame

CheckTokenInternal ==
    /\ result' = DiagResult("check_token_internal",
                            check_token_internal(app_tag, tx, x, overflow_checks))
    /\ Frame

TokenIsMint ==
    /\ result' = FlagResult("token::is_mint", token_is_mint(app_tag, tx))
    /\ Frame

TokenIsBurn ==
    /\ result' = FlagResult("token::is_burn", token_is_burn(app_tag, tx, overflow_checks))
    /\ Frame

NextToken == TokenCheck \/ CheckTokenInternal \/ TokenIsMint \/ TokenIsBurn

SpecToken == InitToken /\ [][NextToken]_vars

(***************************************************************************)
(* Reference notions used by the properties.  They read the transaction    *)
(* directly and use none of the validators' helpers.                       *)
(***************************************************************************)
\* item holds a datum of variant type under tag
HoldsVariant(item, tag, type) ==
    /\ item.charm_state # << >>
    /\ tag \in DOMAIN item.charm_state[1].apps
    /\ item.charm_state[1].apps[tag].type = type

\* the UInt64 amount item holds under tag
AmountOf(item, tag) == item.charm_state[1].apps[tag].value

RECURSIVE LimbTotal(_, _, _)
\* the sum, over the items holding a UInt64 under tag, of limb i of the amount
LimbTotal(items, tag, i) ==
    IF items = << >> THEN 0
    ELSE (IF HoldsVariant(Head(items), tag, "U64") THEN AmountOf(Head(items), tag)[i] ELSE 0)
         + LimbTotal(Tail(items), tag, i)

\* the total of the UInt64 values stored under tag across items, as an unbounded
\* natural number: five limbs, the first one counting the multiples of 2^64
Total(items, tag) ==
    LET c4 == LimbTotal(items, tag, 4)
        c3 == LimbTotal(items, tag, 3) + (c4 \div LimbBase)
        c2 == LimbTotal(items, tag, 2) + (c3 \div LimbBase)
        c1 == LimbTotal(items, tag, 1) + (c2 \div LimbBase)
    IN  <<c1 \div LimbBase, c1 % LimbBase, c2 % LimbBase, c3 % LimbBase, c4 % LimbBase>>

\* the total exceeds the unsigned 64-bit maximum
ExceedsU64(total) == total[1] > 0

\* the total modulo 2^64
Low64(total) == <<total[2], total[3], total[4], total[5]>>

InputSum == Total(tx.inputs, app_tag)
OutputSum == Total(tx.outputs, app_tag)

TokenFns == {"token::check", "check_token_internal"}

EmptyBytesAuth == x.type = "Bytes" /\ x.value = << >>
NonEmptyBytesAuth == x.type = "Bytes" /\ x.value # << >>

\* v + 1 and v - 1 on 64-bit amounts (v < 2^64 - 1, resp. v > 0)
AmountSucc(v) ==
    LET i == CHOOSE k \in 1..4 : v[k] < LimbBase - 1 /\ \A j \in (k + 1)..4 : v[j] = LimbBase - 1
    IN  [j \in 1..4 |-> IF j < i THEN v[j] ELSE IF j = i THEN v[j] + 1 ELSE 0]

AmountPred(v) ==
    LET i == CHOOSE k \in 1..4 : v[k] > 0 /\ \A j \in (k + 1)..4 : v[j] = 0
    IN  [j \in 1..4 |-> IF j < i THEN v[j] ELSE IF j = i THEN v[j] - 1 ELSE LimbBase - 1]

\* tx with the UInt64 amount of output j under tag replaced by v
WithOutputAmount(t, tag, j, v) ==
    [t EXCEPT !.outputs[j].charm_state[1].apps[tag].value = v]

\* the transactions obtained from t by changing one output amount under tag by +1 or -1
OneOff(t, tag) ==
    UNION {
        LET v == AmountOf(t.outputs[j], tag)
        IN  {WithOutputAmount(t, tag, j, AmountSucc(v)) : k \in {1} \ {n \in {1} : v = U64_MAX}}
              \cup
            {WithOutputAmount(t, tag, j, AmountPred(v)) : k \in {1} \ {n \in {1} : v = U64(0)}}
        : j \in {n \in 1..Len(t.outputs) : HoldsVariant(t.outputs[n], tag, "U64")}}

(***************************************************************************)
(* Properties of the fungible validator                                    *)
(***************************************************************************)
\* C1: the fungible validator (token::check and check_token_internal) never
\* accepts a transaction whose total of UInt64 values under the tag over the
\* inputs differs from the total over the outputs.
C1_NeverAcceptsUnbalanced ==
    (result.fn \in TokenFns /\ result.outcome = "accept") => InputSum = OutputSum

\* C2: when the total over the inputs or over the outputs exceeds the unsigned
\* 64-bit maximum, the fungible validator rejects; it never accepts on the
\* basis of a sum that wrapped modulo 2^64.
C2_RejectsOnOverflow ==
    (result.fn \in TokenFns /\ (ExceedsU64(InputSum) \/ ExceedsU64(OutputSum)))
        => result.outcome = "reject"

\* C8: a transaction whose input total equals its output total and whose
\* authorization is non-empty Bytes is accepted, and changing any single
\* output amount by +1 or -1 turns the acceptance into a rejection.
C8_BalancedAcceptedOneOffRejected ==
    (result.fn = "token::check" /\ InputSum = OutputSum /\ NonEmptyBytesAuth)
        => /\ result.outcome = "accept"
           /\ \A t2 \in OneOff(tx, app_tag) :
                NativeResult("token::check",
                             token_check(app_tag, t2, x, overflow_checks)).outcome = "reject"

\* C9: zero-length Bytes authorization causes rejection even when the sums
\* balance; a balanced transaction whose authorization is Empty or any other
\* non-Bytes variant is accepted.
C9_AuthorizationDatum ==
    (result.fn \in TokenFns /\ InputSum = OutputSum)
        => /\ EmptyBytesAuth => result.outcome = "reject"
           /\ x.type # "Bytes" => result.outcome = "accept"

\* C10: only the UInt64 entries under the tag are added: inputs and outputs
\* with no state, no entry for the tag or an entry of another variant (Int64
\* included) contribute 0 and never cause rejection by themselves.  The
\* outcome and the reported sums are those of the totals of the UInt64 entries.
C10_OnlyUInt64Added ==
    result.fn \in TokenFns
        => /\ (result.outcome = "panic")
                <=> (overflow_checks /\ (ExceedsU64(InputSum) \/ ExceedsU64(OutputSum)))
           /\ result.outcome # "panic"
                => /\ (result.outcome = "accept")
                        <=> (Low64(InputSum) = Low64(OutputSum) /\ ~EmptyBytesAuth)
                   /\ result.fn = "check_token_internal"
                        => /\ Unwrap(result.report).input_sum = Some(Low64(InputSum))
                           /\ Unwrap(result.report).output_sum = Some(Low64(OutputSum))

\* C10 witness: an accepted transfer of a non-zero amount in which one input
\* holds an Int64 under the tag and one output has no state at all
C10_Witness ==
    /\ result.fn \in TokenFns
    /\ result.outcome = "accept"
    /\ InputSum # <<0, 0, 0, 0, 0>>
    /\ \E i \in 1..Len(tx.inputs) : HoldsVariant(tx.inputs[i], app_tag, "I64")
    /\ \E j \in 1..Len(tx.outputs) : tx.outputs[j].charm_state = << >>

\* a > b on unbounded totals (most significant limb first)
TotalGt(a, b) ==
    \E i \in 1..Len(a) : a[i] > b[i] /\ \A j \in 1..(i - 1) : a[j] = b[j]

ZeroTotal == <<0, 0, 0, 0, 0>>

\* the classification of the transaction by its totals
IsMint == InputSum = ZeroTotal /\ TotalGt(OutputSum, ZeroTotal)
IsBurn == TotalGt(InputSum, OutputSum)

\* C11: the mint flag equals (inputSum = 0 and outputSum > 0) and the burn flag
\* equals (inputSum > outputSum), in the record of check_token_internal and in
\* what token::is_mint and token::is_burn return.
C11_MintBurnFlags ==
    /\ result.fn = "check_token_internal"
         => /\ result.outcome # "panic"
            /\ Unwrap(result.report).is_mint = Some(IsMint)
            /\ Unwrap(result.report).is_burn = Some(IsBurn)
    /\ result.fn = "token::is_mint" => result.outcome = (IF IsMint THEN "true" ELSE "false")
    /\ result.fn = "token::is_burn" => result.outcome = (IF IsBurn THEN "true" ELSE "false")

\* C12: the mint flag and the burn flag are never both true: not in the record
\* of check_token_internal, and not for token::is_mint and token::is_burn called
\* on the same tag and transaction.
C12_NotMintAndBurn ==
    /\ (result.fn = "check_token_internal" /\ result.outcome # "panic")
         => ~(/\ Unwrap(result.report).is_mint = Some(TRUE)
              /\ Unwrap(result.report).is_burn = Some(TRUE))
    /\ (result.fn = "token::is_mint" /\ result.outcome = "true")
         => token_is_burn(app_tag, tx, overflow_checks) # Returned(TRUE)
    /\ (result.fn = "token::is_burn" /\ result.outcome = "true")
         => token_is_mint(app_tag, tx) # Returned(TRUE)

\* C12 witness: a call that reported a flag as true for a transaction whose
\* totals differ and are both below 2^64
C12_Witness ==
    /\ \/ /\ result.fn = "check_token_internal"
          /\ result.outcome # "panic"
          /\ Unwrap(result.report).is_mint = Some(TRUE)
       \/ /\ result.fn = "token::is_mint"
          /\ result.outcome = "true"
    /\ TotalGt(OutputSum, ZeroTotal)
    /\ ~ExceedsU64(OutputSum)

\* no input holds an entry under the tag, and an output holds a positive UInt64
MintShaped ==
    /\ \A i \in 1..Len(tx.inputs) :
          \A type \in {"Empty", "Bool", "U64", "I64", "Bytes", "String"} :
              ~HoldsVariant(tx.inputs[i], app_tag, type)
    /\ \E j \in 1..Len(tx.outputs) :
          /\ HoldsVariant(tx.outputs[j], app_tag, "U64")
          /\ AmountOf(tx.outputs[j], app_tag) # U64(0)

\* C13: a transaction with no input entry for the tag and an output holding a
\* positive UInt64 amount is classified as a mint and is rejected by the
\* validator, for every authorization datum.
C13_MintRejected ==
    MintShaped
        => /\ result.fn \in TokenFns => result.outcome = "reject"
           /\ result.fn = "check_token_internal"
                => /\ Unwrap(result.report).is_mint = Some(TRUE)
                   /\ \E e \in 1..Len(Unwrap(result.report).errors) :
                         Unwrap(result.report).errors[e][1] = "Token conservation failed"
           /\ result.fn = "token::is_mint" => result.outcome = "true"

(***************************************************************************)
(* Non-fungible validator                                                  *)
(***************************************************************************)
\* Vec::contains / slice::contains
contains(seq, v) == \E i \in 1..Len(seq) : seq[i] = v

\* the duplicate loop of nft::check with `seen.push(nft)` left out: seen stays
\* empty, so no output identifier is ever found in it
has_duplicate_no_push(seen, rest) == FALSE

RECURSIVE has_duplicate(_, _)
\* the loop `for nft in &output_nfts { if seen.contains(nft) { return false; }
\* seen.push(nft); }` of nft::check: TRUE when it returns false
has_duplicate(seen, rest) ==
    IF rest = << >> THEN FALSE
    ELSE IF contains(seen, Head(rest)) THEN TRUE
    ELSE has_duplicate(Append(seen, Head(rest)), Tail(rest))

\* the mint loop followed by the same loop over the inputs: an identifier that
\* leaves the transaction also needs the authorization
unauthorized_changes(output_nfts, input_nfts, auth) ==
    IF is_empty(auth)
      THEN SelectSeq(output_nfts, LAMBDA v : ~contains(input_nfts, v))
             \o SelectSeq(input_nfts, LAMBDA v : ~contains(output_nfts, v))
      ELSE << >>

RECURSIVE unauthorized_mints(_, _, _)
\* the output identifiers, in output order, that are not among the inputs while
\* the authorization is the Empty variant
unauthorized_mints(output_nfts, input_nfts, auth) ==
    IF output_nfts = << >> THEN << >>
    ELSE (IF ~contains(input_nfts, Head(output_nfts)) /\ is_empty(auth)
            THEN <<Head(output_nfts)>> ELSE << >>)
         \o unauthorized_mints(Tail(output_nfts), input_nfts, auth)

\* charmix::nft::check(app, tx, x, _w) -> bool
nft_check(tag, t, auth, checks) ==
    LET input_nfts == bytes_entries(t.inputs, tag)
        output_nfts == bytes_entries(t.outputs, tag)
    IN  IF has_duplicate(<< >>, output_nfts) THEN Returned(FALSE)
        ELSE IF unauthorized_mints(output_nfts, input_nfts, auth) # << >> THEN Returned(FALSE)
        ELSE Returned(TRUE)

\* the duplicate loop of check_nft_internal with a `break` after the first
\* duplicate found
collect_first_duplicate(seen, rest) ==
    LET later == {i \in 1..Len(rest) :
                    rest[i] \in seen \/ \E j \in 1..(i - 1) : rest[j] = rest[i]}
    IN  IF later = {} THEN << >>
        ELSE <<rest[CHOOSE i \in later : \A k \in later : i <= k]>>

RECURSIVE collect_duplicates(_, _)
\* the loop `for nft in &output_nfts { if !seen.insert(nft.clone()) {
\* duplicate_nfts.push(nft.clone()); ... } }` of check_nft_internal; seen is a HashSet
collect_duplicates(seen, rest) ==
    IF rest = << >> THEN << >>
    ELSE (IF Head(rest) \in seen THEN <<Head(rest)>> ELSE << >>)
         \o collect_duplicates(seen \cup {Head(rest)}, Tail(rest))

\* one error message per element of ids
error_each(message, ids) == [i \in 1..Len(ids) |-> <<message, ids[i]>>]

\* charmix wasm_bindings: check_nft_internal(app, tx, x) -> WasmCheckResult
check_nft_internal(tag, t, auth, checks) ==
    LET input_nfts == bytes_entries(t.inputs, tag)
        output_nfts == bytes_entries(t.outputs, tag)
        duplicate_nfts == collect_duplicates({}, output_nfts)
        errors == error_each("Duplicate NFT in outputs", duplicate_nfts)
                    \o error_each("NFT mint without authorization",
                                  unauthorized_mints(output_nfts, input_nfts, auth))
    IN  Returned([WasmCheckResult_default EXCEPT
                    !.valid = (errors = << >>),
                    !.spell_type = "nft",
                    !.nft_ids = Some(output_nfts),
                    !.duplicate_nfts = Some(duplicate_nfts),
                    !.errors = errors])

\* charms-sdk wasm_bindings: check_nft_internal(app, tx, x) -> WasmCheckResult
\* (this WasmCheckResult has no nft_ids and duplicate_nfts fields)
sdk_check_nft_internal(tag, t, auth, checks) ==
    LET input_nfts == bytes_entries(t.inputs, tag)
        output_nfts == bytes_entries(t.outputs, tag)
        errors == error_each("Duplicate NFT in outputs", collect_duplicates({}, output_nfts))
                    \o error_each("NFT mint without authorization",
                                  unauthorized_mints(output_nfts, input_nfts, auth))
    IN  Returned([WasmCheckResult_default EXCEPT
                    !.valid = (errors = << >>),
                    !.spell_type = "nft",
                    !.is_mint = Some(input_nfts # << >> /\ output_nfts # << >>),
                    !.errors = errors])

(***************************************************************************)
(* Specification of the non-fungible validator                             *)
(***************************************************************************)
NftTag == <<"n", "f", "t", ":", "A">>

NftEntries ==
    {Data_Bytes(<<1>>), Data_Bytes(<<2>>), Data_Bytes(<< >>), Data_U64(U64(1))}

NftAuth == {Data_Empty, Data_Bytes(<< >>), Data_Bytes(<<1>>), Data_Bool(FALSE)}

InitNft ==
    /\ app_tag = NftTag
    /\ tx \in Transactions(CharmStates(NftTag, NftEntries))
    /\ x \in NftAuth
    /\ overflow_checks \in BOOLEAN
    /\ result = NoResult
    /\ NoBuilders
    /\ observed = None

NftCheck ==
    /\ result' = NativeResult("nft::check", nft_check(app_tag, tx, x, overflow_checks))
    /\ Frame

CheckNftInternal ==
    /\ result' = DiagResult("check_nft_internal",
                            check_nft_internal(app_tag, tx, x, overflow_checks))
    /\ Frame

SdkCheckNftInternal ==
    /\ result' = DiagResult("sdk::check_nft_internal",
                            sdk_check_nft_internal(app_tag, tx, x, overflow_checks))
    /\ Frame

NextNft == NftCheck \/ CheckNftInternal \/ SdkCheckNftInternal

SpecNft == InitNft /\ [][NextNft]_vars

(***************************************************************************)
(* Properties of the non-fungible validator                                *)
(***************************************************************************)
NftFns == {"nft::check", "check_nft_internal", "sdk::check_nft_internal"}

\* the Bytes identifier item holds under tag
IdOf(item, tag) == item.charm_state[1].apps[tag].value

\* the positions of items that hold a Bytes identifier under tag
IdPositions(items, tag) == {i \in 1..Len(items) : HoldsVariant(items[i], tag, "Bytes")}

\* the identifiers that appear in more than one output
RepeatedIds ==
    {IdOf(tx.outputs[i], app_tag) : i \in
        {k \in IdPositions(tx.outputs, app_tag) :
            \E j \in IdPositions(tx.outputs, app_tag) :
                j # k /\ IdOf(tx.outputs[j], app_tag) = IdOf(tx.outputs[k], app_tag)}}

InputIds == {IdOf(tx.inputs[i], app_tag) : i \in IdPositions(tx.inputs, app_tag)}
OutputIds == {IdOf(tx.outputs[i], app_tag) : i \in IdPositions(tx.outputs, app_tag)}

\* C4: if any Bytes identifier under the tag appears in more than one output,
\* the non-fungible validator rejects, whatever the inputs and the
\* authorization are, and the diagnostic variant names every repeated
\* identifier in its report (duplicate list and reasons).
C4_DuplicateRejected ==
    (result.fn \in NftFns /\ RepeatedIds # {})
        => /\ result.outcome = "reject"
           /\ result.fn = "check_nft_internal"
                => \A id \in RepeatedIds :
                     /\ contains(Unwrap(Unwrap(result.report).duplicate_nfts), id)
                     /\ contains(Unwrap(result.report).errors, <<"Duplicate NFT in outputs", id>>)
           /\ result.fn = "sdk::check_nft_internal"
                => \A id \in RepeatedIds :
                     contains(Unwrap(result.report).errors, <<"Duplicate NFT in outputs", id>>)

\* C4 witness: a duplicated output identifier that is also an input identifier,
\* under a non-Empty authorization, so that only the duplicate rule can reject
C4_Witness ==
    /\ result.fn \in NftFns
    /\ RepeatedIds # {}
    /\ RepeatedIds \subseteq InputIds
    /\ x.type # "Empty"
    /\ result.outcome = "reject"

\* C5: without duplicate output identifiers, the non-fungible validator
\* accepts if and only if every output identifier is among the input
\* identifiers or the authorization is not the Empty variant.
C5_MintNeedsAuthorization ==
    (result.fn \in NftFns /\ RepeatedIds = {})
        => ((result.outcome = "accept") <=> (OutputIds \subseteq InputIds \/ x.type # "Empty"))

\* C5 witness: an output identifier that is no input identifier, without
\* duplicates and with Empty authorization, is rejected
C5_Witness ==
    /\ result.fn \in NftFns
    /\ RepeatedIds = {}
    /\ ~(OutputIds \subseteq InputIds)
    /\ x.type = "Empty"
    /\ result.outcome = "reject"

(***************************************************************************)
(* The duplicate report of the diagnostic non-fungible validator           *)
(***************************************************************************)
NftReportAuth == {Data_Empty, Data_Bytes(<<1>>)}

InitNftReport ==
    /\ app_tag = NftTag
    /\ tx \in {[inputs |-> i, outputs |-> o] :
                 i \in SeqsUpTo({[charm_state |-> s] :
                                    s \in CharmStates(NftTag, NftEntries)}, MaxReportInputs),
                 o \in SeqsUpTo({[charm_state |-> s] :
                                    s \in CharmStates(NftTag, NftEntries)}, MaxReportOutputs)}
    /\ x \in NftReportAuth
    /\ overflow_checks = FALSE
    /\ result = NoResult
    /\ NoBuilders
    /\ observed = None

SpecNftReport == InitNftReport /\ [][NextNft]_vars

\* the output positions holding an identifier that an earlier output holds too
LaterOccurrences ==
    {i \in IdPositions(tx.outputs, app_tag) :
        \E j \in IdPositions(tx.outputs, app_tag) :
            j < i /\ IdOf(tx.outputs[j], app_tag) = IdOf(tx.outputs[i], app_tag)}

\* the k-th smallest element of a set of positions
Nth(positions, k) ==
    CHOOSE i \in positions : Cardinality({j \in positions : j < i}) = k - 1

\* C19: the duplicate list of the diagnostic non-fungible validator holds one
\* entry for each occurrence of an output identifier after its first, in
\* output order, and none for a first occurrence: its length is the number of
\* output identifiers minus the number of distinct ones; each entry has its
\* reason in the report.
C19_AllDuplicatesReported ==
    result.fn = "check_nft_internal"
        => LET dups == Unwrap(Unwrap(result.report).duplicate_nfts)
               errors == Unwrap(result.report).errors
           IN  /\ Len(dups) = Cardinality(LaterOccurrences)
               /\ Len(dups) = Cardinality(IdPositions(tx.outputs, app_tag))
                                - Cardinality(OutputIds)
               /\ \A k \in 1..Len(dups) :
                     /\ dups[k] = IdOf(tx.outputs[Nth(LaterOccurrences, k)], app_tag)
                     /\ errors[k] = <<"Duplicate NFT in outputs", dups[k]>>

\* C19 witness: a report with more than one duplicate
C19_Witness ==
    /\ result.fn = "check_nft_internal"
    /\ Len(Unwrap(Unwrap(result.report).duplicate_nfts)) >= 2

(***************************************************************************)
(* State-machine validators: escrow (native and diagnostic), bounty        *)
(***************************************************************************)
\* enum EscrowState
EscrowState(name) == [name |-> name, milestone |-> << >>]
MilestoneCompleted(n) == [name |-> "MilestoneCompleted", milestone |-> n]

\* charmix::escrow::parse_escrow_state(data) -> Option<EscrowState>
parse_escrow_state(data) ==
    LET v == as_u64(data)
    IN  IF ~IsSome(v) THEN None          \* data.as_u64()?
        ELSE LET n == Unwrap(v)
             IN  CASE n = U64(0) -> Some(EscrowState("Created"))
                   [] n = U64(1) -> Some(EscrowState("Funded"))
                   [] n = U64(2) -> Some(EscrowState("Released"))
                   [] n = U64(3) -> Some(EscrowState("Disputed"))
                   [] n = U64(4) -> Some(EscrowState("Refunded"))
                   [] n \notin {U64(0), U64(1), U64(2), U64(3), U64(4)} /\ u64_ge(n, U64(100))
                        -> Some(MilestoneCompleted(as_u32(u64_sub(n, U64(100)))))
                   [] OTHER -> None

RECURSIVE find_escrow_state(_, _)
\* items.iter().find_map(|i| i.charm_state.as_ref().and_then(|state| state.get(tag))
\*                              .and_then(|data| parse_escrow_state(data)))
find_escrow_state(items, tag) ==
    IF items = << >> THEN None
    ELSE LET d == get_state_data(Head(items).charm_state, tag)
             st == IF IsSome(d) THEN parse_escrow_state(Unwrap(d)) ELSE None
         IN  IF IsSome(st) THEN st ELSE find_escrow_state(Tail(items), tag)

\* the name of the variant of an Option<EscrowState>
variant(state) == IF IsSome(state) THEN Unwrap(state).name ELSE "None"

\* escrow::check with one more arm, `(Some(Refunded), Some(Created)) => true`
escrow_check_refunded_reopens(tag, t, auth, checks) ==
    LET current_state == find_escrow_state(t.inputs, tag)
        next_state == find_escrow_state(t.outputs, tag)
    IN  Returned(<<variant(current_state), variant(next_state)>> \in
                    {<<"None", "Created">>,
                     <<"Created", "Funded">>,
                     <<"Funded", "MilestoneCompleted">>,
                     <<"MilestoneCompleted", "Released">>,
                     <<"Funded", "Disputed">>,
                     <<"Disputed", "Refunded">>,
                     <<"Disputed", "Released">>,
                     <<"Refunded", "Created">>})

\* charmix::escrow::check(app, tx, x, _w) -> bool
escrow_check(tag, t, auth, checks) ==
    LET current_state == find_escrow_state(t.inputs, tag)
        next_state == find_escrow_state(t.outputs, tag)
    IN  Returned(<<variant(current_state), variant(next_state)>> \in
                    {<<"None", "Created">>,
                     <<"Created", "Funded">>,
                     <<"Funded", "MilestoneCompleted">>,
                     <<"MilestoneCompleted", "Released">>,
                     <<"Funded", "Disputed">>,
                     <<"Disputed", "Refunded">>,
                     <<"Disputed", "Released">>})

\* items.iter().find_map(|i| data_as_u64(&get_state_data(&i.charm_state, tag)))
find_u64(items, tag) ==
    LET found == u64_entries(items, tag)
    IN  IF found = << >> THEN None ELSE Some(Head(found))

\* the width of usize on the wasm32 target the bindings are built for
UsizeBits == 32

\* s as usize
as_usize(s) == IF UsizeBits = 32 THEN <<0, 0, s[3], s[4]>> ELSE s

\* state.and_then(|s| state_names.get(s as usize)).map(|s| s.to_string())
\*      .unwrap_or_else(|| "None".to_string())
state_name(state_names, state) ==
    IF IsSome(state)
       /\ \E i \in 1..Len(state_names) : as_usize(Unwrap(state)) = U64(i - 1)
      THEN state_names[CHOOSE i \in 1..Len(state_names) : as_usize(Unwrap(state)) = U64(i - 1)]
      ELSE "None"

\* the body shared by check_escrow_internal and check_bounty_internal
check_transition(spell_type, message, state_names, valid_transitions, tag, t) ==
    LET current_state == find_u64(t.inputs, tag)
        next_state == find_u64(t.outputs, tag)
        current_name == state_name(state_names, current_state)
        next_name == state_name(state_names, next_state)
        is_valid == <<current_state, next_state>> \in valid_transitions
        errors == IF ~is_valid THEN << <<message, current_name, next_name>> >> ELSE << >>
    IN  Returned([WasmCheckResult_default EXCEPT
                    !.valid = (errors = << >>),
                    !.spell_type = spell_type,
                    !.current_state = Some(current_name),
                    !.next_state = Some(next_name),
                    !.state_transition_valid = Some(is_valid),
                    !.errors = errors])

\* charmix wasm_bindings: check_escrow_internal(app, tx) -> WasmCheckResult
check_escrow_internal(tag, t, checks) ==
    check_transition("escrow", "Invalid escrow transition",
        <<"Created", "Funded", "Released", "Disputed", "Refunded">>,
        {<<None, Some(U64(0))>>,        \* -> Created
         <<Some(U64(0)), Some(U64(1))>>, \* Created -> Funded
         <<Some(U64(1)), Some(U64(2))>>, \* Funded -> Released
         <<Some(U64(1)), Some(U64(3))>>, \* Funded -> Disputed
         <<Some(U64(3)), Some(U64(4))>>, \* Disputed -> Refunded
         <<Some(U64(3)), Some(U64(2))>>}, \* Disputed -> Released
        tag, t)

\* charms-sdk wasm_bindings: check_escrow_internal(app, tx): the same statements
sdk_check_escrow_internal(tag, t, checks) ==
    check_transition("escrow", "Invalid escrow transition",
        <<"Created", "Funded", "Released", "Disputed", "Refunded">>,
        {<<None, Some(U64(0))>>,
         <<Some(U64(0)), Some(U64(1))>>,
         <<Some(U64(1)), Some(U64(2))>>,
         <<Some(U64(1)), Some(U64(3))>>,
         <<Some(U64(3)), Some(U64(4))>>,
         <<Some(U64(3)), Some(U64(2))>>},
        tag, t)

\* check_bounty_internal with one more pair in valid_transitions,
\* `(Some(2), Some(0))`: Completed -> Open
check_bounty_internal_reopens(tag, t, auth, checks) ==
    check_transition("bounty", "Invalid bounty transition",
        <<"Open", "InProgress", "Completed", "Cancelled", "Disputed">>,
        {<<None, Some(U64(0))>>,
         <<Some(U64(0)), Some(U64(1))>>,
         <<Some(U64(1)), Some(U64(2))>>,
         <<Some(U64(0)), Some(U64(3))>>,
         <<Some(U64(1)), Some(U64(4))>>,
         <<Some(U64(4)), Some(U64(2))>>,
         <<Some(U64(4)), Some(U64(3))>>,
         <<Some(U64(2)), Some(U64(0))>>},
        tag, t)

\* charmix wasm_bindings: check_bounty_internal(app, tx, _x) -> WasmCheckResult
check_bounty_internal(tag, t, auth, checks) ==
    check_transition("bounty", "Invalid bounty transition",
        <<"Open", "InProgress", "Completed", "Cancelled", "Disputed">>,
        {<<None, Some(U64(0))>>,        \* -> Open
         <<Some(U64(0)), Some(U64(1))>>, \* Open -> InProgress
         <<Some(U64(1)), Some(U64(2))>>, \* InProgress -> Completed
         <<Some(U64(0)), Some(U64(3))>>, \* Open -> Cancelled
         <<Some(U64(1)), Some(U64(4))>>, \* InProgress -> Disputed
         <<Some(U64(4)), Some(U64(2))>>, \* Disputed -> Completed
         <<Some(U64(4)), Some(U64(3))>>}, \* Disputed -> Cancelled
        tag, t)

(***************************************************************************)
(* Specification of the state-machine validators                           *)
(***************************************************************************)
EscrowTag == <<"e", "s", "c", "r", "o", "w", ":", "A">>

\* the state values 0..4, an undecodable value (5), a milestone value (100)
StateEntries ==
    {Data_U64(U64(0)), Data_U64(U64(1)), Data_U64(U64(2)), Data_U64(U64(3)),
     Data_U64(U64(4)), Data_U64(U64(5)), Data_U64(U64(100))}

\* these validators add nothing, so the build profile makes no difference
InitEscrow ==
    /\ app_tag = EscrowTag
    /\ tx \in Transactions(CharmStates(EscrowTag, StateEntries))
    /\ x = Data_Empty
    /\ overflow_checks = FALSE
    /\ result = NoResult
    /\ NoBuilders
    /\ observed = None

EscrowCheck ==
    /\ result' = NativeResult("escrow::check", escrow_check(app_tag, tx, x, overflow_checks))
    /\ Frame

CheckEscrowInternal ==
    /\ result' = DiagResult("check_escrow_internal",
                            check_escrow_internal(app_tag, tx, overflow_checks))
    /\ Frame

CheckBountyInternal ==
    /\ result' = DiagResult("check_bounty_internal",
                            check_bounty_internal(app_tag, tx, x, overflow_checks))
    /\ Frame

NextEscrow == EscrowCheck \/ CheckEscrowInternal \/ CheckBountyInternal

SpecEscrow == InitEscrow /\ [][NextEscrow]_vars

(***************************************************************************)
(* Properties of the escrow validators                                     *)
(***************************************************************************)
EscrowFns == {"escrow::check", "check_escrow_internal"}

\* the escrow state a UInt64 value declares: values of 100 and more are
\* MilestoneCompleted, 0..4 follow the index table, anything else is unknown
EscrowStateOf(v) ==
    IF v[1] > 0 \/ v[2] > 0 \/ v[3] > 0 \/ v[4] >= 100 THEN "MilestoneCompleted"
    ELSE IF v[4] = 0 THEN "Created"
    ELSE IF v[4] = 1 THEN "Funded"
    ELSE IF v[4] = 2 THEN "Released"
    ELSE IF v[4] = 3 THEN "Disputed"
    ELSE IF v[4] = 4 THEN "Refunded"
    ELSE "Unknown"

\* the state declared by the first of items whose UInt64 entry under tag
\* declares a known state; "None" when there is none
DeclaredEscrowState(items, tag) ==
    LET known == {i \in 1..Len(items) :
                    /\ HoldsVariant(items[i], tag, "U64")
                    /\ EscrowStateOf(AmountOf(items[i], tag)) # "Unknown"}
    IN  IF known = {} THEN "None"
        ELSE EscrowStateOf(AmountOf(items[CHOOSE i \in known : \A j \in known : i <= j], tag))

EscrowTable ==
    {<<"None", "Created">>, <<"Created", "Funded">>, <<"Funded", "MilestoneCompleted">>,
     <<"MilestoneCompleted", "Released">>, <<"Funded", "Disputed">>,
     <<"Disputed", "Refunded">>, <<"Disputed", "Released">>}

\* C3: every escrow validator (escrow::check and check_escrow_internal)
\* accepts if and only if (currentState, nextState) is one of the seven pairs
\* of the escrow transition table.
C3_EscrowTable ==
    result.fn \in EscrowFns
        => ((result.outcome = "accept")
              <=> (<<DeclaredEscrowState(tx.inputs, app_tag),
                     DeclaredEscrowState(tx.outputs, app_tag)>> \in EscrowTable))

(***************************************************************************)
(* Properties of the bounty validator and of state selection               *)
(***************************************************************************)
\* the bounty state a UInt64 value declares, by the index table
BountyStateOf(v) ==
    IF v[1] > 0 \/ v[2] > 0 \/ v[3] > 0 \/ v[4] > 4 THEN "Unknown"
    ELSE IF v[4] = 0 THEN "Open"
    ELSE IF v[4] = 1 THEN "InProgress"
    ELSE IF v[4] = 2 THEN "Completed"
    ELSE IF v[4] = 3 THEN "Cancelled"
    ELSE "Disputed"

\* the positions of items whose UInt64 entry under tag declares a known state
\* of the family that decodes values by StateOf
KnownPositions(items, tag, StateOf(_)) ==
    {i \in 1..Len(items) :
        /\ HoldsVariant(items[i], tag, "U64")
        /\ StateOf(AmountOf(items[i], tag)) # "Unknown"}

FirstOf(positions) == CHOOSE i \in positions : \A j \in positions : i <= j

DeclaredBountyState(items, tag) ==
    LET known == KnownPositions(items, tag, BountyStateOf)
    IN  IF known = {} THEN "None"
        ELSE BountyStateOf(AmountOf(items[FirstOf(known)], tag))

BountyTable ==
    {<<"None", "Open">>, <<"Open", "InProgress">>, <<"InProgress", "Completed">>,
     <<"Open", "Cancelled">>, <<"InProgress", "Disputed">>,
     <<"Disputed", "Completed">>, <<"Disputed", "Cancelled">>}

\* the pair (currentState, nextState) of the transaction, per family
EscrowPair ==
    <<DeclaredEscrowState(tx.inputs, app_tag), DeclaredEscrowState(tx.outputs, app_tag)>>
BountyPair ==
    <<DeclaredBountyState(tx.inputs, app_tag), DeclaredBountyState(tx.outputs, app_tag)>>

\* C14: the bounty validator accepts if and only if (currentState, nextState)
\* is one of the seven pairs of the bounty transition table, the states being
\* decoded from UInt64 by the index table 0..4.
C14_BountyTable ==
    result.fn = "check_bounty_internal"
        => ((result.outcome = "accept") <=> (BountyPair \in BountyTable))

\* C15: no transaction whose currentState is terminal is accepted: Released or
\* Refunded for escrow, Completed or Cancelled for bounty, whatever nextState is.
C15_TerminalStates ==
    /\ (result.fn \in EscrowFns /\ EscrowPair[1] \in {"Released", "Refunded"})
          => result.outcome = "reject"
    /\ (result.fn = "check_bounty_internal" /\ BountyPair[1] \in {"Completed", "Cancelled"})
          => result.outcome = "reject"

\* C15 witness: a rejected transaction out of a terminal state into the
\* family's creation state, the pair a reopening rule would allow
C15_Witness ==
    /\ result.outcome = "reject"
    /\ \/ result.fn \in EscrowFns /\ EscrowPair = <<"Refunded", "Created">>
       \/ result.fn = "check_bounty_internal" /\ BountyPair = <<"Cancelled", "Open">>

StateFns == EscrowFns \cup {"check_bounty_internal"}

\* the pair of the family the call belongs to
FamilyPair == IF result.fn = "check_bounty_internal" THEN BountyPair ELSE EscrowPair
CreationState == IF result.fn = "check_bounty_internal" THEN "Open" ELSE "Created"

\* C16: in every state-machine validator a transaction with nextState = None
\* is rejected for every currentState, a transaction with currentState = None
\* is accepted only when nextState is the creation state of the family, and
\* the diagnostic variant cites the rejected pair by the names of its states.
C16_NoneStates ==
    result.fn \in StateFns
        => /\ FamilyPair[2] = "None" => result.outcome = "reject"
           /\ (FamilyPair[1] = "None" /\ result.outcome = "accept")
                => FamilyPair[2] = CreationState
           /\ (result.fn # "escrow::check" /\ result.outcome = "reject"
                 /\ (FamilyPair[1] = "None" \/ FamilyPair[2] = "None"))
                => \E e \in 1..Len(Unwrap(result.report).errors) :
                      /\ Unwrap(result.report).errors[e][2] = FamilyPair[1]
                      /\ Unwrap(result.report).errors[e][3] = FamilyPair[2]

\* some input (resp. output) is the only state-bearing one and holds a value >= 100
OnlyMilestone(items) ==
    /\ Len(items) = 1
    /\ HoldsVariant(items[1], app_tag, "U64")
    /\ EscrowStateOf(AmountOf(items[1], app_tag)) = "MilestoneCompleted"
OnlyState(items, name) ==
    /\ Len(items) = 1
    /\ HoldsVariant(items[1], app_tag, "U64")
    /\ EscrowStateOf(AmountOf(items[1], app_tag)) = name

\* C17: in every escrow validator a UInt64 value v >= 100 declares
\* MilestoneCompleted: Funded(1) -> v is accepted and v -> Released(2) is
\* accepted, and a value in 5..99 declares no state (the pair is then formed
\* without it).
C17_MilestoneValues ==
    result.fn \in EscrowFns
        => /\ (OnlyState(tx.inputs, "Funded") /\ OnlyMilestone(tx.outputs))
                => result.outcome = "accept"
           /\ (OnlyMilestone(tx.inputs) /\ OnlyState(tx.outputs, "Released"))
                => result.outcome = "accept"
           /\ (OnlyState(tx.inputs, "Unknown") /\ OnlyState(tx.outputs, "Created"))
                => result.outcome = "accept"

\* the first of items that declares a known state, alone; no item when none does
FirstKnown(items, tag, StateOf(_)) ==
    LET known == KnownPositions(items, tag, StateOf)
    IN  IF known = {} THEN << >> ELSE <<items[FirstOf(known)]>>

\* the transaction cut down to its first state-declaring input and output
EscrowReduced ==
    [inputs |-> FirstKnown(tx.inputs, app_tag, EscrowStateOf),
     outputs |-> FirstKnown(tx.outputs, app_tag, EscrowStateOf)]
BountyReduced ==
    [inputs |-> FirstKnown(tx.inputs, app_tag, BountyStateOf),
     outputs |-> FirstKnown(tx.outputs, app_tag, BountyStateOf)]

\* C18: in every state-machine validator currentState and nextState come from
\* the first input and the first output whose entry under the tag declares a
\* known state: the call yields what it yields on the transaction cut down to
\* those two, so skipped entries and later state-bearing items change nothing.
C18_FirstDecodableState ==
    /\ result.fn = "escrow::check"
         => result = NativeResult("escrow::check",
                                  escrow_check(app_tag, EscrowReduced, x, overflow_checks))
    /\ result.fn = "check_escrow_internal"
         => result = DiagResult("check_escrow_internal",
                                check_escrow_internal(app_tag, EscrowReduced, overflow_checks))
    /\ result.fn = "check_bounty_internal"
         => result = DiagResult("check_bounty_internal",
                                check_bounty_internal(app_tag, BountyReduced, x, overflow_checks))

(***************************************************************************)
(* Dispatch by tag prefix                                                  *)
(***************************************************************************)
\* str::starts_with
starts_with(s, prefix) ==
    Len(s) >= Len(prefix) /\ SubSeq(s, 1, Len(prefix)) = prefix

TokenPrefix == <<"t", "o", "k", "e", "n", ":">>
NftPrefix == <<"n", "f", "t", ":">>
EscrowPrefix == <<"e", "s", "c", "r", "o", "w", ":">>
BountyPrefix == <<"b", "o", "u", "n", "t", "y", ":">>
BollarPrefix == <<"b", "o", "l", "l", "a", "r", ":">>

\* charms-sdk wasm_bindings: check_token_internal(app, tx, x): the same
\* statements as charmix's check_token_internal
sdk_check_token_internal(tag, t, auth, checks) ==
    check_token_internal(tag, t, auth, checks)

\* charmix wasm_bindings: check_bollar_internal(app, tx, x) -> WasmCheckResult
check_bollar_internal(tag, t, auth, checks) ==
    LET token_result == check_token_internal(tag, t, auth, checks)
    IN  IF token_result.panicked THEN token_result
        ELSE Returned([token_result.ret EXCEPT !.spell_type = "bollar"])

\* the else branch of check_spell_internal returning the default record, with
\* no reason pushed
unknown_app_type_no_reason(tag) == Returned(WasmCheckResult_default)

\* the result for a tag that matches no prefix
unknown_app_type(tag) ==
    Returned([WasmCheckResult_default EXCEPT
                !.valid = FALSE,
                !.spell_type = "unknown",
                !.errors = << <<"Unknown app type", tag>> >>])

\* charmix wasm_bindings: check_spell_internal(app, tx, x, w) -> WasmCheckResult
check_spell_internal(tag, t, auth, checks) ==
    IF starts_with(tag, TokenPrefix) THEN check_token_internal(tag, t, auth, checks)
    ELSE IF starts_with(tag, NftPrefix) THEN check_nft_internal(tag, t, auth, checks)
    ELSE IF starts_with(tag, EscrowPrefix) THEN check_escrow_internal(tag, t, checks)
    ELSE IF starts_with(tag, BountyPrefix) THEN check_bounty_internal(tag, t, auth, checks)
    ELSE IF starts_with(tag, BollarPrefix) THEN check_bollar_internal(tag, t, auth, checks)
    ELSE unknown_app_type(tag)

\* charms-sdk wasm_bindings: check_spell_internal(app, tx, x, w) -> WasmCheckResult
sdk_check_spell_internal(tag, t, auth, checks) ==
    IF starts_with(tag, TokenPrefix) THEN sdk_check_token_internal(tag, t, auth, checks)
    ELSE IF starts_with(tag, NftPrefix) THEN sdk_check_nft_internal(tag, t, auth, checks)
    ELSE IF starts_with(tag, EscrowPrefix) THEN sdk_check_escrow_internal(tag, t, checks)
    ELSE unknown_app_type(tag)

\* charmix main.rs: main(), from the tuple read from stdin on: the match on
\* app.tag, then assert!(result, ...) and the success line.  exit is "panic"
\* when the assertion fails or the checker panicked.
main(tag, t, auth, checks) ==
    LET known == \/ starts_with(tag, TokenPrefix)
                 \/ starts_with(tag, NftPrefix)
                 \/ starts_with(tag, EscrowPrefix)
        call == IF starts_with(tag, TokenPrefix) THEN token_check(tag, t, auth, checks)
                ELSE IF starts_with(tag, NftPrefix) THEN nft_check(tag, t, auth, checks)
                ELSE IF starts_with(tag, EscrowPrefix) THEN escrow_check(tag, t, auth, checks)
                ELSE Returned(FALSE)
        stderr == (IF known THEN << >> ELSE << <<"Unknown app type", tag>> >>)
                    \o (IF call.panicked THEN << <<"attempt to add with overflow">> >>
                        ELSE IF ~call.ret
                          THEN << <<"Spell verification failed for app", tag>> >>
                        ELSE << >>)
    IN  [panicked |-> call.panicked,
         ret |-> call.ret,
         stderr |-> stderr,
         stdout |-> IF ~call.panicked /\ call.ret
                      THEN << <<"Spell verified successfully">> >> ELSE << >>,
         exit |-> IF ~call.panicked /\ call.ret THEN "success" ELSE "panic"]

\* charmix wasm_bindings: check_spell_native(app, tx, x, w) -> bool
check_spell_native(tag, t, auth, checks) == token_check(tag, t, auth, checks)

\* charms-sdk wasm_bindings: check_spell_native(app, tx, x, w) -> bool
sdk_check_spell_native(tag, t, auth, checks) == Returned(TRUE)

\* the record of a run of main
MainResult(fn, r) ==
    [fn |-> fn,
     outcome |-> IF r.panicked THEN "panic" ELSE IF r.ret THEN "accept" ELSE "reject",
     report |-> Some([stderr |-> r.stderr, stdout |-> r.stdout, exit |-> r.exit])]

(***************************************************************************)
(* Specification of the dispatching entry points                           *)
(***************************************************************************)
BountyTag == <<"b", "o", "u", "n", "t", "y", ":", "A">>
BollarTag == <<"b", "o", "l", "l", "a", "r", ":", "A">>
UnknownTag == <<"s", "w", "a", "p", ":", "A">>
BareTag == <<"t", "o", "k", "e", "n">>

KnownTags == {TokenTag, NftTag, EscrowTag, BountyTag, BollarTag}
Tags == KnownTags \cup {UnknownTag, BareTag}

\* amounts and state values 0 and 1, and one identifier
DispatchEntries == {Data_U64(U64(0)), Data_U64(U64(1)), Data_Bytes(<<1>>)}

DispatchAuth == {Data_Empty, Data_Bytes(<<1>>)}

\* the amounts drawn here cannot overflow, so the build profile makes no difference
Init ==
    /\ app_tag \in Tags
    /\ tx \in Transactions(CharmStates(app_tag, DispatchEntries))
    /\ x \in DispatchAuth
    /\ overflow_checks = FALSE
    /\ result = NoResult
    /\ NoBuilders
    /\ observed = None

CheckSpell ==
    /\ result' = DiagResult("check_spell_internal",
                            check_spell_internal(app_tag, tx, x, overflow_checks))
    /\ Frame

SdkCheckSpell ==
    /\ result' = DiagResult("sdk::check_spell_internal",
                            sdk_check_spell_internal(app_tag, tx, x, overflow_checks))
    /\ Frame

Main ==
    /\ result' = MainResult("main", main(app_tag, tx, x, overflow_checks))
    /\ Frame

CheckSpellNative ==
    /\ result' = NativeResult("check_spell_native",
                              check_spell_native(app_tag, tx, x, overflow_checks))
    /\ Frame

SdkCheckSpellNative ==
    /\ result' = NativeResult("sdk::check_spell_native",
                              sdk_check_spell_native(app_tag, tx, x, overflow_checks))
    /\ Frame

Next == CheckSpell \/ SdkCheckSpell \/ Main \/ CheckSpellNative \/ SdkCheckSpellNative

Spec == Init /\ [][Next]_vars

(***************************************************************************)
(* Properties of the dispatch                                              *)
(***************************************************************************)
Prefixes == {TokenPrefix, NftPrefix, EscrowPrefix, BountyPrefix, BollarPrefix}

\* the namespace prefixes the tag starts with
MatchedPrefixes ==
    {p \in Prefixes : Len(p) <= Len(app_tag) /\ \A i \in 1..Len(p) : app_tag[i] = p[i]}

DiagDispatchFns == {"check_spell_internal", "sdk::check_spell_internal"}
NativeDispatchFns == {"check_spell_native", "sdk::check_spell_native"}
DispatchFns == DiagDispatchFns \cup NativeDispatchFns \cup {"main"}

\* C6: for a tag that starts with none of the known prefixes, every
\* verification entry point ends in a reject (never an accept, never a crash
\* inside verification), and the entry points that report reasons name the tag.
C6_UnknownTagRejected ==
    (result.fn \in DispatchFns /\ MatchedPrefixes = {})
        => /\ result.outcome = "reject"
           /\ result.fn \in DiagDispatchFns
                => contains(Unwrap(result.report).errors, <<"Unknown app type", app_tag>>)
           /\ result.fn = "main"
                => contains(Unwrap(result.report).stderr, <<"Unknown app type", app_tag>>)

\* the verdict of the validator family of prefix p on the call's arguments: the
\* diagnostic validators for the diagnostic entry points, the native ones
\* otherwise (the bounty state machine has a diagnostic validator only)
FamilyOutcome(p, diag) ==
    IF p \in {TokenPrefix, BollarPrefix}
      THEN IF diag
             THEN DiagResult("", check_token_internal(app_tag, tx, x, overflow_checks)).outcome
             ELSE NativeResult("", token_check(app_tag, tx, x, overflow_checks)).outcome
    ELSE IF p = NftPrefix
      THEN IF diag
             THEN DiagResult("", check_nft_internal(app_tag, tx, x, overflow_checks)).outcome
             ELSE NativeResult("", nft_check(app_tag, tx, x, overflow_checks)).outcome
    ELSE IF p = EscrowPrefix
      THEN IF diag
             THEN DiagResult("", check_escrow_internal(app_tag, tx, overflow_checks)).outcome
             ELSE NativeResult("", escrow_check(app_tag, tx, x, overflow_checks)).outcome
    ELSE DiagResult("", check_bounty_internal(app_tag, tx, x, overflow_checks)).outcome

\* the family label reported for prefix p
FamilyLabel(p) ==
    IF p = TokenPrefix THEN "token"
    ELSE IF p = NftPrefix THEN "nft"
    ELSE IF p = EscrowPrefix THEN "escrow"
    ELSE IF p = BountyPrefix THEN "bounty"
    ELSE "bollar"

\* C7: every dispatching entry point (check_spell_internal of charmix and of
\* charms-sdk, main) routes a tag to exactly one validator family by its
\* prefix; no tag matches two prefixes and each of the five prefixes is
\* recognised by every entry point.
C7_RoutedByPrefix ==
    result.fn \in DiagDispatchFns \cup {"main"}
        => /\ Cardinality(MatchedPrefixes) <= 1
           /\ \A p \in MatchedPrefixes :
                /\ result.outcome = FamilyOutcome(p, result.fn \in DiagDispatchFns)
                /\ result.fn \in DiagDispatchFns
                     => Unwrap(result.report).spell_type = FamilyLabel(p)

\* C20: the result of verifying under a `bollar:` tag equals the result of the
\* fungible validator on the same transaction and authorization in every field
\* (validity, sums, mint and burn flags, reasons) except the family label, which
\* is "bollar".
C20_BollarAsToken ==
    (result.fn \in DiagDispatchFns /\ MatchedPrefixes = {BollarPrefix})
        => LET token_result == check_token_internal(app_tag, tx, x, overflow_checks)
           IN  /\ result.outcome = DiagResult("check_token_internal", token_result).outcome
               /\ ~token_result.panicked
                    => Unwrap(result.report) = [token_result.ret EXCEPT !.spell_type = "bollar"]

(***************************************************************************)
(* Properties of the diagnostic record                                     *)
(***************************************************************************)
\* C21: in every diagnostic record, of any validator family or of the
\* unknown-tag path, the list of rejection reasons is empty if and only if the
\* validity flag is true.
C21_ReasonsEmptyIffValid ==
    (result.fn \in DiagDispatchFns /\ result.outcome # "panic")
        => ((Unwrap(result.report).errors = << >>) <=> Unwrap(result.report).valid)

\* C21 witness: the record of the unknown-tag path, invalid with its reason
C21_Witness ==
    /\ result.fn \in DiagDispatchFns
    /\ MatchedPrefixes = {}
    /\ ~Unwrap(result.report).valid
    /\ Unwrap(result.report).errors # << >>

(***************************************************************************)
(* JSON text handed to the wasm bindings: either it does not parse as the  *)
(* expected type, or it parses to a value                                  *)
(***************************************************************************)
Malformed == [parses |-> FALSE, value |-> << >>]
Json(v) == [parses |-> TRUE, value |-> v]

\* serde_json::from_str::<T>(json).ok()
from_str_ok(json) == IF json.parses THEN Some(json.value) ELSE None

(***************************************************************************)
(* charms-data: NormalizedSpell and the spell checks                       *)
(***************************************************************************)
MaxSpellIns == 2
MaxSpellOuts == 2

\* NormalizedSpell::new(version) / WasmSpellBuilder::new(version)
NormalizedSpell_new(version) == [version |-> version, ins |-> << >>, outs |-> << >>]

\* NormalizedSpell::verify with `!self.outs.is_empty()` left out
NormalizedSpell_verify_ins_only(s) == s.version > 0 /\ s.ins # << >>

\* NormalizedSpell::verify(&self) -> bool
NormalizedSpell_verify(s) == s.version > 0 /\ s.ins # << >> /\ s.outs # << >>

\* Transaction::verify_spell(&self) -> bool, of a transaction whose spell
\* field is tx_spell: Option<NormalizedSpell>
Transaction_verify_spell(tx_spell) ==
    IF IsSome(tx_spell) THEN NormalizedSpell_verify(Unwrap(tx_spell))
    ELSE TRUE       \* no spell means no charm constraints

\* WasmSpellBuilder::add_input(self, txid, vout, charms_json: Option<String>)
WasmSpellBuilder_add_input(b, vout, charms_json) ==
    LET parsed == IF IsSome(charms_json) THEN from_str_ok(Unwrap(charms_json)) ELSE None
    IN  [b EXCEPT !.ins = Append(@, [utxo_ref |-> [vout |-> vout], charms |-> parsed])]

\* WasmSpellBuilder::add_output(self, index, charms_json: Option<String>)
WasmSpellBuilder_add_output(b, index, charms_json) ==
    LET parsed == IF IsSome(charms_json) THEN from_str_ok(Unwrap(charms_json)) ELSE None
    IN  [b EXCEPT !.outs = Append(@, [index |-> index, charms |-> parsed])]

\* WasmSpellBuilder::verify(&self) -> bool
WasmSpellBuilder_verify(b) == b.version > 0 /\ b.ins # << >> /\ b.outs # << >>

\* WasmSpellBuilder::to_json: the text parses back to the spell
WasmSpellBuilder_to_json(b) == Json([version |-> b.version, ins |-> b.ins, outs |-> b.outs])

\* Result<T, JsError>
Ok(v) == [ok |-> TRUE, value |-> v]
Err(message) == [ok |-> FALSE, value |-> message]

\* charms-data wasm_bindings: validate_spell(json) -> Result<JsValue, JsError>
validate_spell(json) ==
    LET parsed == from_str_ok(json)
    IN  IF ~IsSome(parsed) THEN Err(<<"Invalid spell">>)
        ELSE LET s == Unwrap(parsed)
                 is_valid == s.version > 0 /\ s.ins # << >> /\ s.outs # << >>
             IN  Ok([valid |-> is_valid, version |-> s.version,
                     inputCount |-> Len(s.ins), outputCount |-> Len(s.outs)])

\* charms-sdk wasm_bindings: verify_spell(spell_json) -> Result<JsValue, JsError>
sdk_verify_spell(spell_json) ==
    LET parsed == from_str_ok(spell_json)
    IN  IF ~IsSome(parsed) THEN Err(<<"Failed to parse spell">>)
        ELSE LET s == Unwrap(parsed)
                 valid == s.version > 0 /\ s.ins # << >> /\ s.outs # << >>
             IN  Ok([valid |-> valid, version |-> s.version,
                     inputCount |-> Len(s.ins), outputCount |-> Len(s.outs)])

\* the record of a call that returns Result<JsValue, JsError> carrying a record
\* with a valid field
JsResult(fn, r) ==
    [fn |-> fn,
     outcome |-> IF ~r.ok THEN "error" ELSE IF r.value.valid THEN "accept" ELSE "reject",
     report |-> IF r.ok THEN Some(r.value) ELSE None]

(***************************************************************************)
(* Specification of the spell builder and the spell checks                 *)
(***************************************************************************)
Versions == {0, 1, 2}

\* the charm states a spell input or output is given as JSON
SpellCharms == {Some(with_app(CharmState_new, TokenTag, Data_U64(U64(1))))}
CharmsJson == {None, Some(Malformed)} \cup {Some(Json(Unwrap(c))) : c \in SpellCharms}

InitSpell ==
    /\ app_tag = TokenTag
    /\ tx = [inputs |-> << >>, outputs |-> << >>]
    /\ x = Data_Empty
    /\ overflow_checks = FALSE
    /\ result = NoResult
    /\ spell \in {NormalizedSpell_new(v) : v \in Versions}
    /\ charms = CharmState_new
    /\ observed = None

SpellAddInput ==
    /\ Len(spell.ins) < MaxSpellIns
    /\ \E charms_json \in CharmsJson :
          spell' = WasmSpellBuilder_add_input(spell, Len(spell.ins), charms_json)
    /\ result' = [fn |-> "WasmSpellBuilder::add_input", outcome |-> "none", report |-> None]
    /\ UNCHANGED <<app_tag, tx, x, overflow_checks, charms, observed>>

SpellAddOutput ==
    /\ Len(spell.outs) < MaxSpellOuts
    /\ \E charms_json \in CharmsJson :
          spell' = WasmSpellBuilder_add_output(spell, Len(spell.outs), charms_json)
    /\ result' = [fn |-> "WasmSpellBuilder::add_output", outcome |-> "none", report |-> None]
    /\ UNCHANGED <<app_tag, tx, x, overflow_checks, charms, observed>>

SpellVerify ==
    /\ result' = NativeResult("NormalizedSpell::verify", Returned(NormalizedSpell_verify(spell)))
    /\ Frame

BuilderVerify ==
    /\ result' = NativeResult("WasmSpellBuilder::verify", Returned(WasmSpellBuilder_verify(spell)))
    /\ Frame

\* the transaction carries the spell, or none
TransactionVerifySpell ==
    /\ \E tx_spell \in {None, Some(spell)} :
          result' = [NativeResult("Transaction::verify_spell",
                                  Returned(Transaction_verify_spell(tx_spell)))
                        EXCEPT !.report = Some([has_spell |-> IsSome(tx_spell)])]
    /\ Frame

\* the text given is the builder's to_json, or text that is no spell
ValidateSpell ==
    /\ \E json \in {WasmSpellBuilder_to_json(spell), Malformed} :
          result' = JsResult("validate_spell", validate_spell(json))
    /\ Frame

SdkVerifySpell ==
    /\ \E json \in {WasmSpellBuilder_to_json(spell), Malformed} :
          result' = JsResult("sdk::verify_spell", sdk_verify_spell(json))
    /\ Frame

NextSpell ==
    \/ SpellAddInput \/ SpellAddOutput
    \/ SpellVerify \/ BuilderVerify \/ TransactionVerifySpell
    \/ ValidateSpell \/ SdkVerifySpell

SpecSpell == InitSpell /\ [][NextSpell]_vars

\* the spell is well-formed
WellFormed == spell.version >= 1 /\ Len(spell.ins) >= 1 /\ Len(spell.outs) >= 1

\* C22: every spell well-formedness check (NormalizedSpell::verify,
\* WasmSpellBuilder::verify, validate_spell, verify_spell) returns valid if and
\* only if version > 0 and ins and outs are both non-empty, and the diagnostic
\* forms report inputCount and outputCount as the lengths of ins and outs.
C22_SpellWellFormed ==
    /\ result.fn \in {"NormalizedSpell::verify", "WasmSpellBuilder::verify"}
         => ((result.outcome = "accept") <=> WellFormed)
    /\ (result.fn = "Transaction::verify_spell" /\ Unwrap(result.report).has_spell)
         => ((result.outcome = "accept") <=> WellFormed)
    /\ (result.fn \in {"validate_spell", "sdk::verify_spell"} /\ result.outcome # "error")
         => /\ (result.outcome = "accept") <=> WellFormed
            /\ Unwrap(result.report).valid <=> WellFormed
            /\ Unwrap(result.report).version = spell.version
            /\ Unwrap(result.report).inputCount = Len(spell.ins)
            /\ Unwrap(result.report).outputCount = Len(spell.outs)

\* C22 witness: a spell with inputs and a positive version but no output,
\* found invalid by a diagnostic form that reports its counts
C22_Witness ==
    /\ result.fn \in {"validate_spell", "sdk::verify_spell"}
    /\ result.outcome = "reject"
    /\ spell.version > 0
    /\ Len(spell.ins) = 2
    /\ Len(spell.outs) = 0

(***************************************************************************)
(* The exported wasm entry points, which take JSON text, and the           *)
(* transaction builder of charms-data                                      *)
(***************************************************************************)
\* WasmTransactionBuilder::add_input(self, txid, vout, charm_state_json)
WasmTransactionBuilder_add_input(b, charm_state_json) ==
    LET charm_state == IF IsSome(charm_state_json)
                         THEN from_str_ok(Unwrap(charm_state_json)) ELSE None
    IN  [b EXCEPT !.inputs = Append(@, [charm_state |-> charm_state])]

\* WasmTransactionBuilder::add_output(self, index, value, script_pubkey, charm_state_json)
WasmTransactionBuilder_add_output(b, charm_state_json) ==
    LET charm_state == IF IsSome(charm_state_json)
                         THEN from_str_ok(Unwrap(charm_state_json)) ELSE None
    IN  [b EXCEPT !.outputs = Append(@, [charm_state |-> charm_state])]

\* WasmTransactionBuilder::to_json: the text parses back to the transaction
WasmTransactionBuilder_to_json(b) == Json(b)

\* serde_json::from_str(x_json).unwrap_or(WasmData::Empty)
from_str_or_empty(json) == IF json.parses THEN json.value ELSE Data_Empty

\* charmix wasm_bindings: check_spell(app_json, tx_json, x_json, w_json): parse app and tx or fail,
\* parse x or take Empty, call the internal check
check_spell(app_json, tx_json, x_json, w_json, checks) ==
    IF ~app_json.parses THEN Returned(Err(<<"Failed to parse app">>))
    ELSE IF ~tx_json.parses THEN Returned(Err(<<"Failed to parse tx">>))
    ELSE LET r == check_spell_internal(app_json.value.tag, tx_json.value,
                      from_str_or_empty(x_json), checks)
         IN  IF r.panicked THEN Panicked(Err(<<"panic">>)) ELSE Returned(Ok(r.ret))

\* charmix wasm_bindings: check_token(app_json, tx_json, x_json): parse app and tx or fail,
\* parse x or take Empty, call the internal check
check_token(app_json, tx_json, x_json, checks) ==
    IF ~app_json.parses THEN Returned(Err(<<"Failed to parse app">>))
    ELSE IF ~tx_json.parses THEN Returned(Err(<<"Failed to parse tx">>))
    ELSE LET r == check_token_internal(app_json.value.tag, tx_json.value,
                      from_str_or_empty(x_json), checks)
         IN  IF r.panicked THEN Panicked(Err(<<"panic">>)) ELSE Returned(Ok(r.ret))

\* charmix wasm_bindings: check_nft(app_json, tx_json, x_json): parse app and tx or fail,
\* parse x or take Empty, call the internal check
check_nft(app_json, tx_json, x_json, checks) ==
    IF ~app_json.parses THEN Returned(Err(<<"Failed to parse app">>))
    ELSE IF ~tx_json.parses THEN Returned(Err(<<"Failed to parse tx">>))
    ELSE LET r == check_nft_internal(app_json.value.tag, tx_json.value,
                      from_str_or_empty(x_json), checks)
         IN  IF r.panicked THEN Panicked(Err(<<"panic">>)) ELSE Returned(Ok(r.ret))

\* the record of a call of an exported entry point, with the text it was given
ExportResult(fn, r, given) ==
    [fn |-> fn,
     outcome |-> IF r.panicked THEN "panic"
                 ELSE IF ~r.ret.ok THEN "error"
                 ELSE IF r.ret.value.valid THEN "accept" ELSE "reject",
     report |-> IF ~r.panicked /\ r.ret.ok THEN Some(r.ret.value) ELSE None,
     given |-> given]

(***************************************************************************)
(* Specification of the exported entry points on built transactions        *)
(***************************************************************************)
WasmAuth == {Data_Empty, Data_Bytes(<< >>), Data_Bytes(<<1>>)}

\* the text given as x_json or w_json
DataJson == {Malformed} \cup {Json(d) : d \in WasmAuth}

\* the text given as charm_state_json
StateJson ==
    {None, Some(Malformed)}
        \cup {Some(Json(Unwrap(s))) : s \in CharmStates(app_tag, DispatchEntries) \ {None}}

InitWasm ==
    /\ app_tag \in {TokenTag, NftTag}
    /\ tx = [inputs |-> << >>, outputs |-> << >>]      \* WasmTransactionBuilder::new
    /\ x = Data_Empty
    /\ overflow_checks = FALSE
    /\ result = NoResult
    /\ NoBuilders
    /\ observed = None

BuilderAddInput ==
    /\ Len(tx.inputs) < MaxInputs
    /\ \E charm_state_json \in StateJson :
          /\ tx' = WasmTransactionBuilder_add_input(tx, charm_state_json)
          /\ result' = [fn |-> "WasmTransactionBuilder::add_input", outcome |-> "none",
                        report |-> None, given |-> charm_state_json]
    /\ UNCHANGED <<app_tag, x, overflow_checks, spell, charms, observed>>

BuilderAddOutput ==
    /\ Len(tx.outputs) < MaxOutputs
    /\ \E charm_state_json \in StateJson :
          /\ tx' = WasmTransactionBuilder_add_output(tx, charm_state_json)
          /\ result' = [fn |-> "WasmTransactionBuilder::add_output", outcome |-> "none",
                        report |-> None, given |-> charm_state_json]
    /\ UNCHANGED <<app_tag, x, overflow_checks, spell, charms, observed>>

\* the transaction text an entry point is given: the builder's, or no transaction
TxJson == {WasmTransactionBuilder_to_json(tx), Malformed}

CheckSpellExported ==
    /\ \E tx_json \in TxJson, x_json \in DataJson, w_json \in {Malformed, Json(Data_Empty)} :
          result' = ExportResult("check_spell",
                        check_spell(Json([tag |-> app_tag]), tx_json, x_json, w_json,
                                    overflow_checks),
                        [tx_json |-> tx_json, x_json |-> x_json, w_json |-> w_json])
    /\ Frame

CheckTokenExported ==
    /\ \E tx_json \in TxJson, x_json \in DataJson :
          result' = ExportResult("check_token",
                        check_token(Json([tag |-> app_tag]), tx_json, x_json, overflow_checks),
                        [tx_json |-> tx_json, x_json |-> x_json, w_json |-> Json(Data_Empty)])
    /\ Frame

CheckNftExported ==
    /\ \E tx_json \in TxJson, x_json \in DataJson :
          result' = ExportResult("check_nft",
                        check_nft(Json([tag |-> app_tag]), tx_json, x_json, overflow_checks),
                        [tx_json |-> tx_json, x_json |-> x_json, w_json |-> Json(Data_Empty)])
    /\ Frame

NextWasm ==
    \/ BuilderAddInput \/ BuilderAddOutput
    \/ CheckSpellExported \/ CheckTokenExported \/ CheckNftExported

SpecWasm == InitWasm /\ [][NextWasm]_vars

ExportedFns == {"check_spell", "check_token", "check_nft"}
BuilderFns == {"WasmTransactionBuilder::add_input", "WasmTransactionBuilder::add_output"}

\* C23: malformed input is never turned into an accepted result: when the
\* authorization or witness JSON given to check_spell / check_token /
\* check_nft does not parse, or the charm-state JSON given to the builder's
\* add_input / add_output does not parse, the outcome is a reported failure.
C23_MalformedReported ==
    /\ (result.fn \in ExportedFns
          /\ (~result.given.x_json.parses \/ ~result.given.w_json.parses))
         => result.outcome = "error"
    /\ (result.fn \in BuilderFns /\ result.given = Some(Malformed))
         => result.outcome = "error"

(***************************************************************************)
(* Specification of interleaved validator calls on the same arguments,     *)
(* with the history of the calls                                           *)
(***************************************************************************)
MaxFrameInputs == 1
MaxFrameOutputs == 1

FrameTags == {TokenTag, NftTag, EscrowTag, UnknownTag}

InitFrame ==
    /\ app_tag \in FrameTags
    /\ tx \in {[inputs |-> i, outputs |-> o] :
                 i \in SeqsUpTo({[charm_state |-> s] :
                                    s \in CharmStates(app_tag, DispatchEntries)}, MaxFrameInputs),
                 o \in SeqsUpTo({[charm_state |-> s] :
                                    s \in CharmStates(app_tag, DispatchEntries)}, MaxFrameOutputs)}
    /\ x \in DispatchAuth
    /\ overflow_checks = FALSE
    /\ result = NoResult
    /\ NoBuilders
    /\ observed = Some({})

NextFrame == TokenCheck \/ NftCheck \/ EscrowCheck \/ CheckSpell

SpecFrame == InitFrame /\ [][NextFrame]_vars

MaxWithApps == 3

CharmTags == {TokenTag, OtherTag, NftTag}
CharmValues == {Data_Empty, Data_U64(U64(1)), Data_Bytes(<<1>>)}

InitCharms ==
    /\ app_tag = TokenTag
    /\ tx = [inputs |-> << >>, outputs |-> << >>]
    /\ x = Data_Empty
    /\ overflow_checks = FALSE
    /\ result = NoResult
    /\ spell = NoSpell
    /\ charms = CharmState_new
    /\ observed = Some(<< >>)

WithApp ==
    /\ Len(Unwrap(observed)) < MaxWithApps
    /\ \E tag \in CharmTags, data \in CharmValues :
          /\ charms' = with_app(charms, tag, data)
          /\ result' = [fn |-> "CharmState::with_app", outcome |-> "none",
                        report |-> None, given |-> <<tag, data>>]
          /\ observed' = Some(Append(Unwrap(observed), <<tag, data>>))
    /\ UNCHANGED <<app_tag, tx, x, overflow_checks, spell>>

Get ==
    /\ \E tag \in CharmTags :
          result' = [fn |-> "CharmState::get", outcome |-> "none",
                     report |-> get(charms, tag), given |-> <<tag>>]
    /\ UNCHANGED <<app_tag, tx, x, overflow_checks, spell, charms, observed>>

NextCharms == WithApp \/ Get

SpecCharms == InitCharms /\ [][NextCharms]_vars

\* the with_app calls made so far that name tag, by position
AddedAt(tag) == {i \in 1..Len(Unwrap(observed)) : Unwrap(observed)[i][1] = tag}

\* what a map with unique keys holds under tag after those calls: nothing when
\* tag was never added, else the value of the last call that names it
Held(tag) ==
    IF AddedAt(tag) = {} THEN None
    ELSE Some(Unwrap(observed)[CHOOSE i \in AddedAt(tag) : \A j \in AddedAt(tag) : j <= i][2])

\* C25: CharmState behaves as a map with unique keys: after with_app(t, v),
\* get(t) returns v and get(u) of every other tag is as before; a second
\* with_app on a tag replaces the earlier value; get of a tag never added
\* returns no entry, which differs from an entry holding Empty.
C25_CharmStateIsMap ==
    /\ \A tag \in CharmTags : get(charms, tag) = Held(tag)
    /\ result.fn = "CharmState::get" => result.report = Held(result.given[1])
    /\ \A tag \in CharmTags :
          (AddedAt(tag) # {} /\ Unwrap(Held(tag)) = Data_Empty)
              => (get(charms, tag) # None /\ Unwrap(get(charms, tag)).type = "Empty")

\* C25 witness: get returned the value of the second with_app on its tag, the
\* first having given another value, while another tag was never added
C25_Witness ==
    /\ result.fn = "CharmState::get"
    /\ Cardinality(AddedAt(result.given[1])) >= 2
    /\ \E i \in AddedAt(result.given[1]) : Some(Unwrap(observed)[i][2]) # result.report
    /\ \E tag \in CharmTags : AddedAt(tag) = {}

(***************************************************************************)
(* Native and diagnostic validators compared                               *)
(***************************************************************************)
\* the verdict of the native validator of the family of a diagnostic call,
\* on the arguments of that call
NativeOutcome ==
    CASE result.fn = "check_token_internal"
           -> NativeResult("token::check",
                           token_check(app_tag, tx, x, overflow_checks)).outcome
      [] result.fn \in {"check_nft_internal", "sdk::check_nft_internal"}
           -> NativeResult("nft::check", nft_check(app_tag, tx, x, overflow_checks)).outcome
      [] result.fn = "check_escrow_internal"
           -> NativeResult("escrow::check",
                           escrow_check(app_tag, tx, x, overflow_checks)).outcome
      [] OTHER -> result.outcome

\* C26: for the same tag, transaction and authorization datum, the verdict of
\* each native validator (token::check, nft::check, escrow::check) equals the
\* validity flag of its diagnostic counterpart.
C26_NativeEqualsDiagnostic ==
    result.fn \in {"check_token_internal", "check_nft_internal",
                   "sdk::check_nft_internal", "check_escrow_internal"}
        => result.outcome = NativeOutcome

(***************************************************************************)
(* Specification of a chain of state-machine transactions: each submitted  *)
(* transaction spends the output the last accepted one created             *)
(***************************************************************************)
MaxChain == 6

\* charms is the state of the live output (no entry before the first
\* transaction); observed is the history of the state values entered
InitChain ==
    /\ app_tag \in {EscrowTag, BountyTag}
    /\ tx = [inputs |-> << >>, outputs |-> << >>]
    /\ x = Data_Empty
    /\ overflow_checks = FALSE
    /\ result = NoResult
    /\ spell = NoSpell
    /\ charms = CharmState_new
    /\ observed = Some(<< >>)

\* the transactions that spend the live output and create one output
ChainTransactions ==
    {[inputs |-> <<[charm_state |-> Some(charms)]>>,
      outputs |-> <<[charm_state |-> Some(with_app(CharmState_new, app_tag, d))]>>] :
        d \in StateEntries}

\* t is submitted and the validator returns r: when it accepts, the output of
\* t becomes the live output
Submitted(t, r) ==
    /\ tx' = t
    /\ result' = r
    /\ IF r.outcome = "accept"
         THEN /\ charms' = Unwrap(t.outputs[1].charm_state)
              /\ observed' = Some(Append(Unwrap(observed),
                                         Unwrap(t.outputs[1].charm_state).apps[app_tag].value))
         ELSE UNCHANGED <<charms, observed>>
    /\ UNCHANGED <<app_tag, x, overflow_checks, spell>>

SubmitEscrow ==
    /\ app_tag = EscrowTag
    /\ Len(Unwrap(observed)) < MaxChain
    /\ \E t \in ChainTransactions :
          Submitted(t, NativeResult("escrow::check",
                                    escrow_check(app_tag, t, x, overflow_checks)))

SubmitEscrowDiagnostic ==
    /\ app_tag = EscrowTag
    /\ Len(Unwrap(observed)) < MaxChain
    /\ \E t \in ChainTransactions :
          Submitted(t, DiagResult("check_escrow_internal",
                                  check_escrow_internal(app_tag, t, overflow_checks)))

SubmitBounty ==
    /\ app_tag = BountyTag
    /\ Len(Unwrap(observed)) < MaxChain
    /\ \E t \in ChainTransactions :
          Submitted(t, DiagResult("check_bounty_internal",
                                  check_bounty_internal(app_tag, t, x, overflow_checks)))

NextChain == SubmitEscrow \/ SubmitEscrowDiagnostic \/ SubmitBounty

SpecChain == InitChain /\ [][NextChain]_vars

\* the name of the state a value entered declares, in the family of the chain
EnteredState(i) ==
    IF app_tag = BountyTag THEN BountyStateOf(Unwrap(observed)[i])
    ELSE EscrowStateOf(Unwrap(observed)[i])

TerminalStates ==
    IF app_tag = BountyTag THEN {"Completed", "Cancelled"} ELSE {"Released", "Refunded"}

\* C27: along any chain of accepted state-machine transactions starting from
\* currentState = None, no state is entered twice, the chain has at most 4
\* accepted transactions, the fourth enters a terminal state, and once a
\* terminal state is entered no further transaction is accepted.
C27_ChainsTerminate ==
    LET n == Len(Unwrap(observed))
    IN  /\ n <= 4
        /\ \A i, j \in 1..n : i # j => EnteredState(i) # EnteredState(j)
        /\ n = 4 => EnteredState(n) \in TerminalStates
        /\ \A i \in 1..(n - 1) : EnteredState(i) \notin TerminalStates

\* C27 witness: a chain of 4 accepted transactions has entered a terminal
\* state and a further transaction has been rejected
C27_Witness ==
    /\ Len(Unwrap(observed)) = 4
    /\ EnteredState(4) \in TerminalStates
    /\ result.outcome = "reject"

(***************************************************************************)
(* Specification of the validators on transactions whose inputs and        *)
(* outputs carry everything a UTXO carries: resource references, output    *)
(* indices, amounts, locking scripts and entries under other tags          *)
(***************************************************************************)
MaxUtxoInputs == 1
MaxUtxoOutputs == 1

\* a tag that differs from tag and starts with it
LongerTag(tag) == Append(tag, "B")

\* the charm states over the keys tag and LongerTag(tag)
UtxoCharmStates(tag) ==
    {None}
      \cup {Some([apps |-> f]) :
              f \in UNION {[K -> {Data_U64(U64(1)), Data_Bytes(<<1>>)}] :
                              K \in SUBSET {tag, LongerTag(tag)}}}

\* TxInput { utxo_ref: UtxoRef { txid, vout }, charm_state }
TxInputs(tag) ==
    {[utxo_ref |-> [txid |-> 0, vout |-> vout], charm_state |-> s] :
        vout \in {0, 1}, s \in UtxoCharmStates(tag)}

\* TxOutput { index, value, script_pubkey, charm_state }
TxOutputs(tag) ==
    {[index |-> o[1], value |-> o[2], script_pubkey |-> o[3], charm_state |-> s] :
        o \in {<<0, 546, "0014">>, <<1, 0, "0015">>}, s \in UtxoCharmStates(tag)}

InitUtxo ==
    /\ app_tag \in {TokenTag, NftTag}
    /\ tx \in {[inputs |-> i, outputs |-> o] :
                 i \in SeqsUpTo(TxInputs(app_tag), MaxUtxoInputs),
                 o \in SeqsUpTo(TxOutputs(app_tag), MaxUtxoOutputs)}
    /\ x \in DispatchAuth
    /\ overflow_checks = FALSE
    /\ result = NoResult
    /\ NoBuilders
    /\ observed = None

NextUtxo ==
    \/ TokenCheck \/ CheckTokenInternal
    \/ NftCheck \/ CheckNftInternal
    \/ EscrowCheck \/ CheckEscrowInternal \/ CheckBountyInternal

SpecUtxo == InitUtxo /\ [][NextUtxo]_vars

\* item with nothing but its entry under exactly tag
OnlyEntry(item, tag) ==
    [charm_state |->
        IF item.charm_state # << >> /\ tag \in DOMAIN item.charm_state[1].apps
          THEN <<[apps |-> [t \in {tag} |-> item.charm_state[1].apps[tag]]]>>
          ELSE << >>]

\* the transaction with nothing but the entries under exactly the tag; two
\* transactions that agree on those entries have the same one
OnlyEntries ==
    [inputs |-> [i \in 1..Len(tx.inputs) |-> OnlyEntry(tx.inputs[i], app_tag)],
     outputs |-> [i \in 1..Len(tx.outputs) |-> OnlyEntry(tx.outputs[i], app_tag)]]

\* the verdict of the validator called fn on transaction t
VerdictOn(fn, t) ==
    CASE fn = "token::check"
           -> NativeResult(fn, token_check(app_tag, t, x, overflow_checks)).outcome
      [] fn = "check_token_internal"
           -> DiagResult(fn, check_token_internal(app_tag, t, x, overflow_checks)).outcome
      [] fn = "nft::check"
           -> NativeResult(fn, nft_check(app_tag, t, x, overflow_checks)).outcome
      [] fn = "check_nft_internal"
           -> DiagResult(fn, check_nft_internal(app_tag, t, x, overflow_checks)).outcome
      [] fn = "sdk::check_nft_internal"
           -> DiagResult(fn, sdk_check_nft_internal(app_tag, t, x, overflow_checks)).outcome
      [] fn = "escrow::check"
           -> NativeResult(fn, escrow_check(app_tag, t, x, overflow_checks)).outcome
      [] fn = "check_escrow_internal"
           -> DiagResult(fn, check_escrow_internal(app_tag, t, overflow_checks)).outcome
      [] fn = "check_bounty_internal"
           -> DiagResult(fn, check_bounty_internal(app_tag, t, x, overflow_checks)).outcome

ValidatorFns ==
    {"token::check", "check_token_internal", "nft::check", "check_nft_internal",
     "escrow::check", "check_escrow_internal", "check_bounty_internal"}

InitTokenOrNft == InitToken \/ InitNft

NextTokenOrNft ==
    \/ TokenCheck \/ CheckTokenInternal
    \/ NftCheck \/ CheckNftInternal \/ SdkCheckNftInternal

SpecTokenOrNft == InitTokenOrNft /\ [][NextTokenOrNft]_vars

\* the reorderings of a sequence
Reorderings(seq) ==
    LET n == Len(seq)
    IN  {[i \in 1..n |-> seq[p[i]]] :
            p \in {q \in [1..n -> 1..n] : \A i, j \in 1..n : q[i] = q[j] => i = j}}

\* C29: the verdicts of the fungible and of the non-fungible validators are
\* unchanged by any reordering of the inputs and any reordering of the
\* outputs of the transaction.
C29_OrderIrrelevant ==
    result.fn \in TokenFns \cup NftFns =>
        \A i \in Reorderings(tx.inputs), o \in Reorderings(tx.outputs) :
            VerdictOn(result.fn, [inputs |-> i, outputs |-> o]) = result.outcome

\* C29 witness: the fungible validator accepted a transaction whose two
\* inputs hold different amounts and whose two outputs hold different amounts
C29_Witness ==
    /\ result.fn \in TokenFns
    /\ result.outcome = "accept"
    /\ Len(tx.inputs) = 2 /\ Len(tx.outputs) = 2
    /\ \A k \in 1..2 : /\ HoldsVariant(tx.inputs[k], app_tag, "U64")
                       /\ HoldsVariant(tx.outputs[k], app_tag, "U64")
    /\ tx.inputs[1] # tx.inputs[2]
    /\ tx.outputs[1] # tx.outputs[2]

(***************************************************************************)
(* Burns under the non-fungible validator                                  *)
(***************************************************************************)
\* C30: the non-fungible validator accepts, with an Empty authorization, a
\* transaction in which an input identifier is absent from the outputs and
\* the outputs are duplicate-free and all among the inputs; a transaction
\* with no output identifier under the tag is accepted for every input set
\* and every authorization.
C30_BurnAccepted ==
    result.fn \in NftFns =>
        /\ (/\ x.type = "Empty"
            /\ InputIds \ OutputIds # {}
            /\ OutputIds \subseteq InputIds
            /\ RepeatedIds = {}) => result.outcome = "accept"
        /\ OutputIds = {} => result.outcome = "accept"

\* C30 witness: of two input identifiers one is passed through and the other
\* is absent from the outputs, under an Empty authorization, and the
\* transaction is accepted
C30_Witness ==
    /\ result.fn \in NftFns
    /\ x.type = "Empty"
    /\ Cardinality(InputIds) = 2
    /\ Cardinality(OutputIds) = 1
    /\ OutputIds \subseteq InputIds
    /\ result.outcome = "accept"

====
